---- MODULE Spec2Model ----
(***************************************************************************)
(* Model of JobRec: the weighted skill/job graph (JobrecBackend.py         *)
(* WeightedGraph), the build_graph / recommend_jobs pipeline, and the      *)
(* search button protocol of the Tkinter front end (JobRecFrontend.py).    *)
(*                                                                         *)
(* Python strings are sequences of code points, so that str.lower,         *)
(* str.count, the "in" substring test, concatenation and the ordering of   *)
(* strings are computed the way CPython computes them.                     *)
(***************************************************************************)
EXTENDS Integers, Sequences, FiniteSets, TLC

VARIABLES
    g,              \* a WeightedGraph driven call by call (GraphSpec)
    call,           \* the last WeightedGraph method call and its arguments
    result,         \* how that call ended: "ok" or "ValueError"
    last_edge,      \* history: weight of the latest successful add_edge per pair
    skills,         \* build_graph / recommend_jobs argument
    skills2,        \* a second skill list, a permutation of skills
    jobs,           \* the posting records handed to build_graph
    limit,          \* recommend_jobs argument
    graph,          \* build_graph(skills, jobs)
    graph2,         \* build_graph(skills2, jobs)
    out,            \* recommend_jobs(graph, skills, limit)
    out2,           \* recommend_jobs(graph2, skills2, limit)
    pc,             \* position of the pipeline: "start", "built", "done"
    search_button,  \* state of JobRecApp.search_button
    loading_label,  \* text of JobRecApp.loading_label
    skill_entries,  \* which of the entry widgets hold a non-blank skill
    api_key,        \* whether FINDWORK_API_KEY is configured
    worker,         \* position of the thread running perform_search
    searches        \* number of searches started so far

vars == <<g, call, result, last_edge, skills, skills2, jobs, limit, graph, graph2, out,
          out2, pc, search_button, loading_label, skill_entries, api_key,
          worker, searches>>

graphVars == <<g, call, result, last_edge>>
recVars == <<skills, skills2, jobs, limit, graph, graph2, out, out2, pc>>
guiVars == <<search_button, loading_label, skill_entries, api_key, worker, searches>>

-----------------------------------------------------------------------------
(* Bounds of the model.                                                    *)

MaxWeight == 2      \* edge weights passed to add_edge are 1..MaxWeight
MaxSkills == 2      \* length of the skill list
MaxPostings == 2    \* length of the posting list
MaxLimit == 3       \* limit argument ranges over 0..MaxLimit
MaxSearches == 3    \* searches the user starts in one session

NumEntries == 5     \* the skill entry widgets of the main window

-----------------------------------------------------------------------------
(* Python strings.                                                         *)

\* str.lower() on the code points used here: 'A'..'Z' map to 'a'..'z'.
Lower(s) == [i \in 1..Len(s) |-> IF s[i] >= 65 /\ s[i] <= 90 THEN s[i] + 32 ELSE s[i]]

\* s[i:i+len(sub)] == sub  (i is 1-based)
MatchAt(s, sub, i) ==
    /\ i + Len(sub) - 1 <= Len(s)
    /\ \A k \in 1..Len(sub) : s[i + k - 1] = sub[k]

\* sub in s
Contains(s, sub) == \E i \in 1..(Len(s) + 1) : MatchAt(s, sub, i)

\* s.count(sub): non-overlapping occurrences, scanned left to right;
\* the empty pattern matches between all characters.
RECURSIVE CountFrom(_, _, _)
CountFrom(s, sub, i) ==
    IF i + Len(sub) - 1 > Len(s) THEN 0
    ELSE IF MatchAt(s, sub, i) THEN 1 + CountFrom(s, sub, i + Len(sub))
    ELSE CountFrom(s, sub, i + 1)

Count(s, sub) == IF sub = <<>> THEN Len(s) + 1 ELSE CountFrom(s, sub, 1)

\* s < t for Python strings: by code point, a proper prefix is smaller.
RECURSIVE StrLess(_, _)
StrLess(s, t) ==
    IF t = <<>> THEN FALSE
    ELSE IF s = <<>> THEN TRUE
    ELSE IF Head(s) # Head(t) THEN Head(s) < Head(t)
    ELSE StrLess(Tail(s), Tail(t))

AT == <<32, 97, 116, 32>>                                       \* " at "
LOW_MATCH == <<91, 76, 111, 119, 32, 77, 97, 116, 99, 104, 93>> \* "[Low Match]"
LOW_MATCH_SUFFIX == <<32>> \o LOW_MATCH                         \* " [Low Match]"

-----------------------------------------------------------------------------
(* WeightedGraph.  A graph value is the _vertices dict: a function from    *)
(* the items present to the vertex record [kind, neighbours]; neighbours   *)
(* is the vertex's dict, keyed here by the neighbour's item (each item has *)
(* exactly one vertex object, vertices are never removed).                 *)

NoEntries == [x \in {} |-> 0]

\* WeightedGraph.__init__
EmptyGraph == [x \in {} |-> [kind |-> "", neighbours |-> NoEntries]]

\* d[k] = v on a dict
DictSet(d, k, v) == [x \in (DOMAIN d) \cup {k} |-> IF x = k THEN v ELSE d[x]]

\* _WeightedVertex.__init__
NewVertex(kind) == [kind |-> kind, neighbours |-> NoEntries]

\* WeightedGraph.has_vertex_helper
has_vertex_helper(gr, item) == item \in DOMAIN gr

\* mutant of add_vertex: inserting an existing item replaces its vertex
add_vertex_overwrite(gr, item, kind) == DictSet(gr, item, NewVertex(kind))

\* WeightedGraph.add_vertex
add_vertex(gr, item, kind) ==
    IF item \notin DOMAIN gr THEN DictSet(gr, item, NewVertex(kind)) ELSE gr

\* mutant of add_edge: only item1's side of the edge is recorded
add_edge_one_sided(gr, item1, item2, weight) ==
    IF item1 \in DOMAIN gr /\ item2 \in DOMAIN gr
    THEN [graph |-> [gr EXCEPT ![item1].neighbours = DictSet(@, item2, weight)],
          raised |-> FALSE]
    ELSE [graph |-> gr, raised |-> TRUE]

\* mutant of add_edge: a missing endpoint is created instead of refused
add_edge_creating(gr, item1, item2, weight) ==
    LET g0 == add_vertex(add_vertex(gr, item1, "job"), item2, "job")
        g1 == [g0 EXCEPT ![item1].neighbours = DictSet(@, item2, weight)]
        g2 == [g1 EXCEPT ![item2].neighbours = DictSet(@, item1, weight)]
    IN  [graph |-> g2, raised |-> FALSE]

\* WeightedGraph.add_edge: the graph afterwards and whether ValueError was raised
add_edge(gr, item1, item2, weight) ==
    IF item1 \in DOMAIN gr /\ item2 \in DOMAIN gr
    THEN LET g1 == [gr EXCEPT ![item1].neighbours = DictSet(@, item2, weight)]
             g2 == [g1 EXCEPT ![item2].neighbours = DictSet(@, item1, weight)]
         IN  [graph |-> g2, raised |-> FALSE]
    ELSE [graph |-> gr, raised |-> TRUE]

\* WeightedGraph.get_weight (both items are vertices)
get_weight(gr, item1, item2) ==
    IF item2 \in DOMAIN gr[item1].neighbours THEN gr[item1].neighbours[item2] ELSE 0

\* WeightedGraph.get_all_vertices
get_all_vertices(gr, kind) ==
    IF kind # "" THEN {x \in DOMAIN gr : gr[x].kind = kind} ELSE DOMAIN gr

-----------------------------------------------------------------------------
(* build_graph.  A posting is a record [role, company_name, text,          *)
(* description]; an absent "text" or "description" key reads as "" through *)
(* dict.get.  The builder state is [graph, raised]: a ValueError from      *)
(* add_edge ends the build.                                                *)

\* f"{job['role']} at {job['company_name']}"
JobId(job) == job.role \o AT \o job.company_name

\* (job.get("text", "") + " " + job.get("description", "")).lower()
Content(job) == Lower(job.text \o <<32>> \o job.description)

\* for skill in skills: graph.add_vertex(skill.lower(), "skill")
RECURSIVE AddSkills(_, _, _)
AddSkills(gr, sk, i) ==
    IF i > Len(sk) THEN gr
    ELSE AddSkills(add_vertex(gr, Lower(sk[i]), "skill"), sk, i + 1)

\* the inner loop of build_graph over the skills, from the i-th skill on;
\* st is [graph, raised, match_score]
RECURSIVE MatchSkills(_, _, _, _, _)
MatchSkills(st, sk, job_id, content, i) ==
    IF i > Len(sk) \/ st.raised THEN st
    ELSE LET count == Count(content, Lower(sk[i]))
         IN  IF count > 0
             THEN LET e == add_edge(st.graph, Lower(sk[i]), job_id, count)
                  IN  MatchSkills([graph |-> e.graph,
                                   raised |-> e.raised,
                                   match_score |-> IF e.raised THEN st.match_score
                                                   ELSE st.match_score + count],
                                  sk, job_id, content, i + 1)
             ELSE MatchSkills(st, sk, job_id, content, i + 1)

\* mutant of Fallback: the first skill is tied to the posting's own vertex
Fallback_on_job(gr, sk, job_id, match_score) ==
    IF match_score = 0 /\ sk # <<>>
    THEN add_edge(gr, Lower(sk[1]), job_id, 1)
    ELSE [graph |-> gr, raised |-> FALSE]

\* if match_score == 0 and skills: add the "[Low Match]" twin
Fallback(gr, sk, job_id, match_score) ==
    IF match_score = 0 /\ sk # <<>>
    THEN LET fallback_job_id == job_id \o LOW_MATCH_SUFFIX
         IN  add_edge(add_vertex(gr, fallback_job_id, "job"),
                      Lower(sk[1]), fallback_job_id, 1)
    ELSE [graph |-> gr, raised |-> FALSE]

\* one iteration of "for job in jobs"
AddJob(gr, sk, job) ==
    LET job_id == JobId(job)
        m == MatchSkills([graph |-> add_vertex(gr, job_id, "job"),
                          raised |-> FALSE, match_score |-> 0],
                         sk, job_id, Content(job), 1)
    IN  IF m.raised THEN [graph |-> m.graph, raised |-> TRUE]
        ELSE Fallback(m.graph, sk, job_id, m.match_score)

RECURSIVE AddJobs(_, _, _, _)
AddJobs(st, sk, js, i) ==
    IF i > Len(js) \/ st.raised THEN st
    ELSE AddJobs(AddJob(st.graph, sk, js[i]), sk, js, i + 1)

build_graph(sk, js) ==
    AddJobs([graph |-> AddSkills(EmptyGraph, sk, 1), raised |-> FALSE], sk, js, 1)

-----------------------------------------------------------------------------
(* recommend_jobs.  get_all_vertices returns a Python set; `order` is the  *)
(* sequence in which iterating that set yields its elements, which the     *)
(* language leaves open.  Entries are pairs <<label, score>>.              *)

\* all sequences that enumerate the set S once each
RECURSIVE Enumerations(_)
Enumerations(S) ==
    IF S = {} THEN {<<>>}
    ELSE UNION {{<<x>> \o e : e \in Enumerations(S \ {x})} : x \in S}

\* sum(graph.get_weight(skill, job) for skill in skills if graph.has_vertex_helper(skill))
RECURSIVE TotalWeight(_, _, _, _)
TotalWeight(gr, sk, job, i) ==
    IF i > Len(sk) THEN 0
    ELSE (IF has_vertex_helper(gr, sk[i]) THEN get_weight(gr, sk[i], job) ELSE 0)
         + TotalWeight(gr, sk, job, i + 1)

\* the first loop: scores.append((job, total_weight)) if total_weight > 0
RECURSIVE Scored(_, _, _, _)
Scored(gr, sk, order, i) ==
    IF i > Len(order) THEN <<>>
    ELSE LET total_weight == TotalWeight(gr, sk, order[i], 1)
         IN  (IF total_weight > 0 THEN << <<order[i], total_weight>> >> ELSE <<>>)
             \o Scored(gr, sk, order, i + 1)

\* mutant of KeyLess: the key is (-x[1], x[0]), without the "[Low Match]" flag
KeyLess_by_score(x, y) ==
    IF x[2] # y[2] THEN -x[2] < -y[2] ELSE StrLess(x[1], y[1])

\* key(x) < key(y) for key = lambda x: ("[Low Match]" in x[0], -x[1], x[0])
KeyLess(x, y) ==
    LET lx == Contains(x[1], LOW_MATCH)
        ly == Contains(y[1], LOW_MATCH)
    IN  IF lx # ly THEN ly
        ELSE IF x[2] # y[2] THEN -x[2] < -y[2]
        ELSE StrLess(x[1], y[1])

\* insert x into the sorted sequence s, after the entries that do not sort after it
RECURSIVE Insert(_, _)
Insert(s, x) ==
    IF s = <<>> THEN <<x>>
    ELSE IF KeyLess(x, Head(s)) THEN <<x>> \o s
    ELSE <<Head(s)>> \o Insert(Tail(s), x)

\* scores.sort(key=...): a stable sort
RECURSIVE Sort(_)
Sort(s) == IF s = <<>> THEN <<>> ELSE Insert(Sort(SubSeq(s, 1, Len(s) - 1)), s[Len(s)])

\* mutant of Backfill: nothing is appended
Backfill_nothing(scores, added, order, lim, i) == scores

\* the backfill loop from the i-th enumerated job on
RECURSIVE Backfill(_, _, _, _, _)
Backfill(scores, added, order, lim, i) ==
    IF i > Len(order) THEN scores
    ELSE LET s1 == IF order[i] \notin added
                   THEN Append(scores, <<order[i], 1>>) ELSE scores
         IN  IF Len(s1) = lim THEN s1
             ELSE Backfill(s1, added, order, lim, i + 1)

\* scores[:limit] for limit >= 0
Truncate(scores, lim) == SubSeq(scores, 1, IF Len(scores) < lim THEN Len(scores) ELSE lim)

recommend_jobs(gr, sk, lim, order) ==
    LET scores == Sort(Scored(gr, sk, order, 1))
        added == {scores[i][1] : i \in 1..Len(scores)}
        filled == IF Len(scores) < lim
                  THEN Backfill(scores, added, order, lim, 1) ELSE scores
    IN  Truncate(filled, lim)

-----------------------------------------------------------------------------
(* Inputs of the model.                                                    *)

Str_a == <<97>>                         \* "a"
Str_A == <<65>>                         \* "A"
Str_r == <<114>>                        \* "r"
Str_c == <<99>>                         \* "c"
Str_d == <<100>>                        \* "d"
Str_r_at_c == Str_r \o AT \o Str_c      \* "r at c"
Str_c_low == Str_c \o LOW_MATCH_SUFFIX  \* "c [Low Match]"
Str_A_r_at_c == <<65, 32>> \o Str_r_at_c \* "A r at c"

Items == {Str_a, Str_r_at_c}
Kinds == {"skill", "job"}
Weights == 1..MaxWeight
Pairs == {{a, b} : a, b \in Items}

SkillStrings == {Str_a, Str_A, Str_r_at_c}
Posting(company, description) ==
    [role |-> Str_r, company_name |-> company, text |-> <<>>, description |-> description]
Postings == {Posting(Str_c, <<>>), Posting(Str_c, Str_A_r_at_c),
             Posting(Str_d, <<>>), Posting(Str_d, Str_a), Posting(Str_d, Str_A_r_at_c),
             Posting(Str_c_low, <<>>), Posting(Str_c_low, Str_A_r_at_c)}
Limits == 0..MaxLimit

SeqsUpTo(S, n) == UNION {[1..k -> S] : k \in 0..n}

-----------------------------------------------------------------------------
(* Values of the variables a specification does not use.                   *)

NoCall == [op |-> "none", item1 |-> <<>>, item2 |-> <<>>, kind |-> "", weight |-> 0]

GraphIdle ==
    /\ g = EmptyGraph
    /\ call = NoCall
    /\ result = "ok"
    /\ last_edge = [p \in Pairs |-> 0]

RecIdle ==
    /\ skills = <<>>
    /\ skills2 = <<>>
    /\ jobs = <<>>
    /\ limit = 0
    /\ graph = EmptyGraph
    /\ graph2 = EmptyGraph
    /\ out = <<>>
    /\ out2 = <<>>
    /\ pc = "start"

GuiIdle ==
    /\ search_button = "normal"
    /\ loading_label = ""
    /\ skill_entries = {}
    /\ api_key = FALSE
    /\ worker = "none"
    /\ searches = 0

-----------------------------------------------------------------------------
(* GraphSpec: a WeightedGraph under arbitrary add_vertex / add_edge calls. *)

GraphInit == GraphIdle /\ RecIdle /\ GuiIdle

\* g.add_vertex(item, kind)
AddVertex(item, kind) ==
    /\ g' = add_vertex(g, item, kind)
    /\ call' = [op |-> "add_vertex", item1 |-> item, item2 |-> <<>>,
                kind |-> kind, weight |-> 0]
    /\ result' = "ok"
    /\ UNCHANGED <<last_edge, recVars, guiVars>>

\* g.add_edge(item1, item2, weight)
AddEdge(item1, item2, weight) ==
    LET e == add_edge(g, item1, item2, weight)
    IN  /\ g' = e.graph
        /\ call' = [op |-> "add_edge", item1 |-> item1, item2 |-> item2,
                    kind |-> "", weight |-> weight]
        /\ result' = IF e.raised THEN "ValueError" ELSE "ok"
        /\ last_edge' = IF e.raised THEN last_edge
                        ELSE [last_edge EXCEPT ![{item1, item2}] = weight]
        /\ UNCHANGED <<recVars, guiVars>>

GraphNext ==
    \/ \E item \in Items, kind \in Kinds : AddVertex(item, kind)
    \/ \E item1, item2 \in Items, weight \in Weights : AddEdge(item1, item2, weight)

GraphSpec == GraphInit /\ [][GraphNext]_vars

-----------------------------------------------------------------------------
(* Properties of the WeightedGraph (GraphSpec).                            *)

\* C6: for every two existing vertices a and b, get_weight(a, b) equals
\* get_weight(b, a), and both equal the weight of the most recent successful
\* add_edge between a and b in either argument order, or 0 if there was none.
C6_WeightSymmetricLatest ==
    \A a, b \in DOMAIN g :
        /\ get_weight(g, a, b) = get_weight(g, b, a)
        /\ get_weight(g, a, b) = last_edge[{a, b}]

\* an edge between two different vertices was just set, and is read back in
\* the other argument order, next to a pair that has no edge
C6_Witness ==
    /\ call.op = "add_edge" /\ result = "ok"
    /\ call.item1 # call.item2
    /\ get_weight(g, call.item2, call.item1) = call.weight
    /\ get_weight(g, call.item1, call.item1) = 0
    /\ get_weight(g, call.item2, call.item2) # 0
    /\ get_weight(g, call.item2, call.item2) # call.weight

\* C7: add_edge with at least one item that is not a vertex raises ValueError
\* and leaves the graph as it was: no vertex created, no weight changed.
C7_AddEdgeUnknownRaises ==
    [][(call'.op = "add_edge"
          /\ (call'.item1 \notin DOMAIN g \/ call'.item2 \notin DOMAIN g))
        => (result' = "ValueError" /\ g' = g)]_vars

\* add_edge was refused with exactly one of its two items present, in a
\* graph that already holds an edge
C7_Witness ==
    /\ call.op = "add_edge" /\ result = "ValueError"
    /\ call.item1 \in DOMAIN g
    /\ call.item2 \notin DOMAIN g
    /\ get_weight(g, call.item1, call.item1) > 0

\* C8: add_vertex for an item already in the graph, with the same or another
\* kind, leaves the vertex set, the recorded kind and every edge weight as
\* they were.
C8_AddVertexIdempotent ==
    [][(call'.op = "add_vertex" /\ call'.item1 \in DOMAIN g) => g' = g]_vars

\* add_vertex was called with another kind for a vertex that has an edge
C8_Witness ==
    /\ call.op = "add_vertex"
    /\ call.item1 \in DOMAIN g
    /\ g[call.item1].kind # call.kind
    /\ g[call.item1].neighbours # NoEntries

-----------------------------------------------------------------------------
(* RecSpec: one run of the pipeline build_graph ; recommend_jobs on inputs *)
(* drawn from the sets above.                                              *)

RecInit ==
    /\ skills \in SeqsUpTo(SkillStrings, MaxSkills)
    /\ skills2 = skills
    /\ jobs \in SeqsUpTo(Postings, MaxPostings)
    /\ limit \in Limits
    /\ graph = EmptyGraph
    /\ graph2 = EmptyGraph
    /\ out = <<>>
    /\ out2 = <<>>
    /\ pc = "start"
    /\ GraphIdle
    /\ GuiIdle

\* graph = build_graph(skills, jobs)
BuildGraph ==
    /\ pc = "start"
    /\ LET b == build_graph(skills, jobs)
       IN  /\ graph' = b.graph
           /\ pc' = IF b.raised THEN "error" ELSE "built"
    /\ UNCHANGED <<skills, skills2, jobs, limit, graph2, out, out2, graphVars, guiVars>>

\* out = recommend_jobs(graph, skills, limit)
RecommendJobs ==
    /\ pc = "built"
    /\ \E order \in Enumerations(get_all_vertices(graph, "job")) :
           out' = recommend_jobs(graph, skills, limit, order)
    /\ pc' = "done"
    /\ UNCHANGED <<skills, skills2, jobs, limit, graph, graph2, out2, graphVars, guiVars>>

RecNext == BuildGraph \/ RecommendJobs

RecSpec == RecInit /\ [][RecNext]_vars

-----------------------------------------------------------------------------
(* Properties of the pipeline (RecSpec).                                   *)

JobVertices == get_all_vertices(graph, "job")
SkillVertices == get_all_vertices(graph, "skill")

Labels(o) == {o[i][1] : i \in 1..Len(o)}
PlainLabels == {JobId(jobs[i]) : i \in 1..Len(jobs)}
DistinctLabels == \A i, j \in 1..Len(jobs) : JobId(jobs[i]) = JobId(jobs[j]) => i = j

\* the posting text holds no occurrence of any of the skills
ZeroMatch(job) == \A i \in 1..Len(skills) : Count(Content(job), Lower(skills[i])) = 0

\* the sum of the weights of the edges of vertex v
RECURSIVE SumOver(_, _)
SumOver(f, S) ==
    IF S = {} THEN 0
    ELSE LET x == CHOOSE y \in S : TRUE IN f[x] + SumOver(f, S \ {x})
EdgeSum(v) == SumOver(graph[v].neighbours, DOMAIN graph[v].neighbours)

\* C1: for 1 or more skills in any letter case, possibly repeated, and a limit
\* of at least the number of job vertices, recommend reports for each job
\* vertex that has an edge the sum of the weights of its edges to the skills.
C1_ScoreIsEdgeSum ==
    (pc = "done" /\ Len(skills) >= 1 /\ limit >= Cardinality(JobVertices))
    => \A j \in JobVertices :
           graph[j].neighbours # NoEntries
           => \E i \in 1..Len(out) : out[i] = <<j, EdgeSum(j)>>

\* C2 as stated: for a non-empty skill list, distinct posting labels and a
\* limit of at least the number of postings, the output has one entry per
\* posting, and a posting matching no skill appears only as its "[Low Match]"
\* entry with score 1.
C2_OneEntryPerPosting ==
    (pc = "done" /\ skills # <<>> /\ DistinctLabels /\ limit >= Len(jobs))
    => /\ Len(out) = Len(jobs)
       /\ \A k \in 1..Len(jobs) :
              ZeroMatch(jobs[k])
              => /\ \E i \in 1..Len(out) :
                        out[i] = <<JobId(jobs[k]) \o LOW_MATCH_SUFFIX, 1>>
                 /\ JobId(jobs[k]) \notin Labels(out)

\* C2 amended: for a non-empty skill list, distinct posting labels and a
\* limit of at least the number of job vertices, the output has exactly one
\* entry per job vertex; a posting matching no skill has its "[Low Match]"
\* vertex in the output and, besides it, its plain vertex, which is
\* backfilled with score 1 when it is a job vertex without edges.
C2_OneEntryPerJobVertex ==
    (pc = "done" /\ skills # <<>> /\ DistinctLabels /\ limit >= Cardinality(JobVertices))
    => /\ Len(out) = Cardinality(JobVertices)
       /\ Labels(out) = JobVertices
       /\ \A k \in 1..Len(jobs) :
              ZeroMatch(jobs[k])
              => /\ JobId(jobs[k]) \o LOW_MATCH_SUFFIX \in Labels(out)
                 /\ (JobId(jobs[k]) \in JobVertices /\ graph[JobId(jobs[k])].neighbours = NoEntries)
                    => \E i \in 1..Len(out) : out[i] = <<JobId(jobs[k]), 1>>

\* a matching posting and a posting without a match, ranked with room to
\* spare: three entries, the unmatched posting under both of its labels
C2_Witness ==
    /\ pc = "done" /\ skills # <<>> /\ DistinctLabels
    /\ limit >= Cardinality(JobVertices)
    /\ Len(jobs) = 2 /\ Len(out) = 3
    /\ ZeroMatch(jobs[2]) /\ ~ZeroMatch(jobs[1])
    /\ JobId(jobs[2]) \in Labels(out)
    /\ JobId(jobs[2]) \o LOW_MATCH_SUFFIX \in Labels(out)

\* C3 as stated: with an empty skill list build_graph creates no skill
\* vertex and no "[Low Match]" twin, and recommend returns an empty list.
C3_EmptySkillsEmptyResult ==
    (pc = "done" /\ skills = <<>>)
    => /\ SkillVertices = {}
       /\ JobVertices = PlainLabels
       /\ out = <<>>

\* C3 amended: with an empty skill list build_graph creates no skill vertex,
\* no "[Low Match]" twin and no edge, and recommend returns
\* min(limit, number of distinct posting labels) entries, each a different
\* posting label with the synthetic score 1; the result is empty only when
\* there is no posting or the limit is 0.
C3_EmptySkillsBackfilled ==
    (pc = "done" /\ skills = <<>>)
    => /\ SkillVertices = {}
       /\ JobVertices = PlainLabels
       /\ \A v \in DOMAIN graph : graph[v].neighbours = NoEntries
       /\ Len(out) = (IF limit < Cardinality(PlainLabels) THEN limit
                      ELSE Cardinality(PlainLabels))
       /\ \A i \in 1..Len(out) : out[i][1] \in PlainLabels /\ out[i][2] = 1
       /\ \A i, j \in 1..Len(out) : out[i][1] = out[j][1] => i = j

\* no skills, two postings with different labels, both returned
C3_Witness ==
    /\ pc = "done" /\ skills = <<>>
    /\ Len(jobs) = 2 /\ limit >= 2 /\ Len(out) = 2

\* the total recommend_jobs computes for the entry's label
Aggregate(entry) == TotalWeight(graph, skills, entry[1], 1)
Marked(entry) == Contains(entry[1], LOW_MATCH)

\* C4: the output entries with a positive aggregate skill weight are in
\* ascending order of (label contains "[Low Match]", -score, label): an
\* unmarked entry precedes every marked one whatever the scores, and within
\* each group the higher score is first, equal scores in label order.
C4_RankedByKey ==
    pc = "done"
    => \A i, j \in 1..Len(out) :
           (i < j /\ Aggregate(out[i]) > 0 /\ Aggregate(out[j]) > 0)
           => /\ out[i][2] = Aggregate(out[i])
              /\ out[j][2] = Aggregate(out[j])
              /\ ~(Marked(out[i]) /\ ~Marked(out[j]))
              /\ Marked(out[i]) = Marked(out[j])
                 => \/ out[i][2] > out[j][2]
                    \/ out[i][2] = out[j][2] /\ StrLess(out[i][1], out[j][1])

\* an unmarked match ranked above a marked entry of higher score
C4_Witness ==
    /\ pc = "done" /\ Len(out) = 2
    /\ Aggregate(out[1]) > 0 /\ Aggregate(out[2]) > 0
    /\ ~Marked(out[1]) /\ Marked(out[2])
    /\ out[2][2] > out[1][2]

\* C9: every edge of the built graph joins one vertex of kind "skill" and one
\* of kind "job": no skill-skill edge, no job-job edge, no self edge.
C9_Bipartite ==
    pc \in {"built", "done"}
    => \A v \in DOMAIN graph :
           \A n \in DOMAIN graph[v].neighbours :
               /\ n # v
               /\ {graph[v].kind, graph[n].kind} = {"skill", "job"}

-----------------------------------------------------------------------------
(* PermSpec: the pipeline run twice on the same postings and limit, with a *)
(* skill list and with a permutation of it.  The two job sets are built by *)
(* the same insertions in one process, so equal sets iterate in the same   *)
(* order.                                                                  *)

Permuted(s) == {[i \in 1..Len(s) |-> s[p[i]]] : p \in Enumerations(1..Len(s))}

PermInit ==
    /\ skills \in SeqsUpTo(SkillStrings, MaxSkills)
    /\ skills2 \in Permuted(skills)
    /\ jobs \in SeqsUpTo(Postings, MaxPostings)
    /\ limit \in Limits
    /\ graph = EmptyGraph
    /\ graph2 = EmptyGraph
    /\ out = <<>>
    /\ out2 = <<>>
    /\ pc = "start"
    /\ GraphIdle
    /\ GuiIdle

\* graph = build_graph(skills, jobs); graph2 = build_graph(skills2, jobs)
BuildGraphs ==
    /\ pc = "start"
    /\ LET b == build_graph(skills, jobs)
           b2 == build_graph(skills2, jobs)
       IN  /\ graph' = b.graph
           /\ graph2' = b2.graph
           /\ pc' = IF b.raised \/ b2.raised THEN "error" ELSE "built"
    /\ UNCHANGED <<skills, skills2, jobs, limit, out, out2, graphVars, guiVars>>

\* out = recommend_jobs(graph, skills, limit); out2 = recommend_jobs(graph2, skills2, limit)
RecommendBoth ==
    /\ pc = "built"
    /\ \E order \in Enumerations(get_all_vertices(graph, "job")),
          order2 \in Enumerations(get_all_vertices(graph2, "job")) :
           /\ get_all_vertices(graph, "job") = get_all_vertices(graph2, "job")
              => order2 = order
           /\ out' = recommend_jobs(graph, skills, limit, order)
           /\ out2' = recommend_jobs(graph2, skills2, limit, order2)
    /\ pc' = "done"
    /\ UNCHANGED <<skills, skills2, jobs, limit, graph, graph2, graphVars, guiVars>>

PermNext == BuildGraphs \/ RecommendBoth

PermSpec == PermInit /\ [][PermNext]_vars

\* C5: for skill lists that are permutations of each other, the same
\* postings and the same limit, build_graph followed by recommend returns
\* the same sequence of (label, score) pairs.
C5_PermutationInvariant == pc = "done" => out = out2

-----------------------------------------------------------------------------
(* GuiSpec: the search button of JobRecApp.  The user edits the entries,   *)
(* the environment may gain or lose the API key, a click on the enabled    *)
(* button runs start_search, and the thread it starts runs perform_search. *)
(* messagebox.showerror returns when the user closes the dialog.           *)

GuiInit ==
    /\ search_button = "normal"
    /\ loading_label = ""
    /\ skill_entries = {}
    /\ api_key \in BOOLEAN
    /\ worker = "none"
    /\ searches = 0
    /\ GraphIdle
    /\ RecIdle

\* the user types a skill into entry i, or blanks it
EditEntry(i) ==
    /\ skill_entries' = IF i \in skill_entries THEN skill_entries \ {i}
                        ELSE skill_entries \cup {i}
    /\ UNCHANGED <<search_button, loading_label, api_key, worker, searches,
                   graphVars, recVars>>

\* FINDWORK_API_KEY is added to or removed from the environment / .env file
ChangeApiKey ==
    /\ api_key' = ~api_key
    /\ UNCHANGED <<search_button, loading_label, skill_entries, worker, searches,
                   graphVars, recVars>>

\* JobRecApp.start_search, the command of the button; a disabled button
\* does not invoke its command
start_search ==
    /\ search_button = "normal"
    /\ searches < MaxSearches
    /\ loading_label' = "Fetching jobs..."
    /\ search_button' = "disabled"
    /\ worker' = "collect"
    /\ searches' = searches + 1
    /\ UNCHANGED <<skill_entries, api_key, graphVars, recVars>>

\* perform_search: skills = [...]; if not skills: showerror(...)
CollectSkills ==
    /\ worker = "collect"
    /\ worker' = IF skill_entries = {} THEN "error_no_skills" ELSE "load_key"
    /\ UNCHANGED <<search_button, loading_label, skill_entries, api_key, searches,
                   graphVars, recVars>>

\* perform_search, no skills: after the dialog, clear the label, enable the
\* button, return
ReturnNoSkills ==
    /\ worker = "error_no_skills"
    /\ loading_label' = ""
    /\ search_button' = "normal"
    /\ worker' = "returned"
    /\ UNCHANGED <<skill_entries, api_key, searches, graphVars, recVars>>

\* perform_search: api_key = load_api_key(); if not api_key: showerror(...)
LoadApiKey ==
    /\ worker = "load_key"
    /\ worker' = IF api_key THEN "pipeline" ELSE "error_no_key"
    /\ UNCHANGED <<search_button, loading_label, skill_entries, api_key, searches,
                   graphVars, recVars>>

\* perform_search, no API key: after the dialog, return
ReturnNoKey ==
    /\ worker = "error_no_key"
    /\ worker' = "returned"
    /\ UNCHANGED <<search_button, loading_label, skill_entries, api_key, searches,
                   graphVars, recVars>>

\* perform_search, search completed: fetch, build, recommend, sleep, clear
\* the label, enable the button, show the results window
FinishSearch ==
    /\ worker = "pipeline"
    /\ loading_label' = ""
    /\ search_button' = "normal"
    /\ worker' = "returned"
    /\ UNCHANGED <<skill_entries, api_key, searches, graphVars, recVars>>

GuiNext ==
    \/ \E i \in 1..NumEntries : EditEntry(i)
    \/ ChangeApiKey
    \/ start_search
    \/ CollectSkills
    \/ ReturnNoSkills
    \/ LoadApiKey
    \/ ReturnNoKey
    \/ FinishSearch

GuiSpec == GuiInit /\ [][GuiNext]_vars

\* C10: every search started by start_search ends, on every path through
\* perform_search, with the search button enabled again and the loading
\* label cleared: once the worker has returned, the button is "normal" and
\* the label is empty.
C10_SearchEndsEnabled ==
    worker = "returned" => (search_button = "normal" /\ loading_label = "")

=============================================================================
